---- MODULE Spec2Model ----
(***************************************************************************)
(* A model of match/sat_encoder.py: the encoding of the matching of        *)
(* incomplete classes against complete classes as a SAT problem            *)
(* (SATEncoder.Generate) and the reading of a solution (SATEncoder.Solve). *)
(*                                                                         *)
(* Strings are sequences of one-character strings; the order of two        *)
(* strings is Python's, character by character.  A class entity            *)
(* (pytd.Class) is identified by its name: the inputs never hold two       *)
(* different classes of one name (ClassType.__eq__ asserts it).            *)
(***************************************************************************)
EXTENDS Naturals, Sequences, FiniteSets, TLC

VARIABLES
  pc,               \* position of the caller / of Generate's body
  types,            \* self.types
  variables,        \* Generate's local `variables`
  added_variables,  \* Generate's local `added_variables`
  sat,              \* what self.sat has been told (constraints, hints, ...)
  solution,         \* what sat.Solve() found and iterating self.sat yields
  results,          \* the dict Solve builds
  warned,           \* Solve ran its "assigned more than once" branch
  rounds,           \* iterations of Generate's while loop so far
  calls,            \* the methods the caller has called so far, in order
  given             \* the arguments of the last call of Generate

vars == <<pc, types, variables, added_variables, sat, solution, results,
          warned, rounds, calls, given>>

----------------------------------------------------------------------------
(* Characters and strings                                                  *)

\* The characters that occur in the names of the model, in ASCII order.
Chars == <<"#", "(", ")", ".", "A", "B", "C", "D", "G", "H", "I", "J", "K",
           "L", "M", "N", "P", "Q", "S", "T", "U", "f", "g">>

Ord(c) == CHOOSE i \in 1..Len(Chars) : Chars[i] = c

\* Python's s < t on strings.
RECURSIVE StrLess(_, _)
StrLess(s, t) ==
  IF t = <<>> THEN FALSE
  ELSE IF s = <<>> THEN TRUE
  ELSE IF Head(s) = Head(t) THEN StrLess(Tail(s), Tail(t))
  ELSE Ord(Head(s)) < Ord(Head(t))

----------------------------------------------------------------------------
(* pytd: type references, signatures, classes (the input language)         *)

\* pytd.ClassType(name); td.cls is set iff the name is resolved.
ClassRef(n) == [k |-> "class", name |-> <<n>>, of |-> {}]
\* A parametric type (pytd.PARAMETRIC_TYPES): base_type is ClassType(base).
GenericRef(base, p) == [k |-> "generic", name |-> <<base>>, of |-> {<<p>>}]
\* pytd.UnionType(type_list), every alternative a ClassType.
UnionRef(ms) == [k |-> "union", name |-> <<>>, of |-> {<<m>> : m \in ms}]

Sig(ps, r) == [params |-> ps, ret |-> r]

NoMethods == <<>>

\* The classes of the model: name -> methods (name -> tuple of signatures).
\* N, S, L, P and Q are classes that signatures refer to (think int, str,
\* list); T is a name that no class is known for (td.cls is None).
ClassMethods ==
  LET N == ClassRef("N")
      S == ClassRef("S")
      T == ClassRef("T")
  IN  (<<"A">> :> ("f" :> <<Sig(<<N>>, N)>>))
   @@ (<<"B">> :> ("f" :> <<Sig(<<N>>, N)>>))
   @@ (<<"C">> :> ("f" :> <<Sig(<<S>>, N)>>))
   @@ (<<"D">> :> ("f" :> <<Sig(<<T>>, N)>>))
   @@ (<<"G">> :> ("f" :> <<Sig(<<GenericRef("L", "N")>>, N)>>))
   @@ (<<"H">> :> ("f" :> <<Sig(<<GenericRef("L", "S")>>, N), Sig(<<N, N>>, N)>>))
   @@ (<<"J">> :> NoMethods)
   @@ (<<"K">> :> (("f" :> <<Sig(<<N>>, N), Sig(<<UnionRef({"N", "S"})>>, N)>>)
                   @@ ("g" :> <<Sig(<<N>>, S)>>)))
   @@ (<<"I">> :> ("f" :> <<Sig(<<N>>, N), Sig(<<UnionRef({"T", "N"})>>, N)>>))
   @@ (<<"M">> :> ("f" :> <<Sig(<<UnionRef({"P", "Q"})>>, N)>>))
   @@ (<<"P">> :> ("f" :> <<Sig(<<N>>, N), Sig(<<S>>, N)>>))
   @@ (<<"Q">> :> ("f" :> <<Sig(<<S>>, N)>>))
   @@ (<<"N">> :> NoMethods)
   @@ (<<"S">> :> NoMethods)
   @@ (<<"L">> :> NoMethods)

\* The classes a caller may pass to Generate.
InputNames == {<<"A">>, <<"B">>, <<"C">>, <<"D">>, <<"G">>, <<"H">>, <<"I">>,
               <<"J">>, <<"K">>, <<"L">>, <<"M">>}

\* td.cls is set: the reference has been resolved to a class.
Resolved(name) == name \in DOMAIN ClassMethods

----------------------------------------------------------------------------
(* Constraint types: ClassType, UnionType, Equality                        *)

Range(s) == {s[i] : i \in DOMAIN s}

\* e, with x evaluated first (TLC evaluates the arguments of an operator
\* only when they are used, and a long chain of pending arguments exhausts
\* its stack).
Strict(x, e) == CASE x = x -> e

\* The elements of a finite set as a tuple, in some order.
RECURSIVE TupleOf(_)
TupleOf(S) ==
  IF S = {} THEN <<>>
  ELSE <<CHOOSE y \in S : TRUE>> \o TupleOf(S \ {CHOOSE y \in S : TRUE})

\* ClassType.structure: {func.name: func for func in cls.methods}.  A class
\* made up for an unresolved name has methods=().
ClassStructure(name) ==
  IF name \in DOMAIN ClassMethods THEN ClassMethods[name] ELSE NoMethods

ClassType(cls, complete) ==
  [kind |-> "class", name |-> cls, complete |-> complete, subtypes |-> {}]

\* Names in every structure, each with the signatures common to all; a name
\* with no common signature is dropped.
IntersectStructures(structs) ==
  LET first  == CHOOSE st \in structs : TRUE
      sigs(name) == {sg \in Range(first[name]) :
                       \A st \in structs : sg \in Range(st[name])}
      names  == {name \in DOMAIN first :
                   /\ \A st \in structs : name \in DOMAIN st
                   /\ sigs(name) # {}}
  IN  [name \in names |-> TupleOf(sigs(name))]

UnionType(subtypes) ==
  [kind |-> "union", name |-> <<>>,
   complete |-> \A ty \in subtypes : ty.complete, subtypes |-> subtypes]

\* The attribute `structure` of a Type.
Structure(t) ==
  IF t.kind = "class" THEN ClassStructure(t.name)
  ELSE IntersectStructures({ClassStructure(ty.name) : ty \in t.subtypes})

\* The value None of a path argument.
NoPath == [kind |-> "none", name |-> <<>>, complete |-> FALSE, subtypes |-> {}]

\* The names of a set of ClassTypes one after the other, smallest first.
Least(S) == CHOOSE x \in S : \A y \in S \ {x} : StrLess(x, y)

RECURSIVE Joined(_)
Joined(S) == IF S = {} THEN <<>> ELSE Least(S) \o Joined(S \ {Least(S)})

\* __str__.  Of a union only the leading "U(" matters in this model: no
\* class name starts with it and the inputs hold at most one union.
Str(t) ==
  IF t.kind = "class" THEN t.name \o (IF t.complete THEN <<>> ELSE <<"#">>)
  ELSE <<"U", "(">>
       \o Joined({ty.name \o (IF ty.complete THEN <<>> ELSE <<"#">>) :
                    ty \in t.subtypes})
       \o <<")">>

\* Type.__gt__ (sic: the smaller string is the greater Type).
TypeGt(a, b) == StrLess(Str(a), Str(b))

\* __lt__ as functools.total_ordering derives it from __gt__ and __eq__.
TypeLt(a, b) == ~(TypeGt(a, b) \/ a = b)

\* Equality.__new__: the two sides sorted.
Equality(a, b) ==
  IF TypeLt(b, a) THEN [left |-> b, right |-> a] ELSE [left |-> a, right |-> b]

\* Equality.Other
Other(e, v) == IF e.right = v THEN e.left ELSE e.right

\* Tuple comparison of two Equalities (sorted() of variables).
VarLt(x, y) ==
  IF x.left # y.left THEN TypeLt(x.left, y.left)
  ELSE x.right # y.right /\ TypeLt(x.right, y.right)

\* A nominal check that lets every pair through.
AlwaysCompatible(self, other) == TRUE

\* ClassType.IsNominallyCompatibleWith / UnionType.IsNominallyCompatibleWith
IsNominallyCompatibleWith(self, other) ==
  IF self.kind = "class" /\ other.kind = "class"
  THEN IF self.complete /\ other.complete THEN other.name = self.name ELSE TRUE
  ELSE TRUE

\* Type.FromPyTD on a pytd.ClassType of the given name.
FromPyTDClass(name, complete, path) ==
  IF Resolved(name) THEN ClassType(name, complete)
  ELSE ClassType((IF path = NoPath THEN <<>> ELSE Str(path)) \o <<".">> \o name,
                 FALSE)

\* Type.FromPyTD
FromPyTD(td, complete, path) ==
  IF td.k = "class" THEN FromPyTDClass(td.name, complete, path)
  ELSE IF td.k = "generic" THEN FromPyTDClass(td.name, TRUE, NoPath)
  ELSE UnionType({FromPyTDClass(m, TRUE, NoPath) : m \in td.of})

\* ToPyTD of a ClassType or a UnionType.
ToPyTD(t) ==
  IF t.kind = "class" THEN [k |-> "class", name |-> t.name, of |-> {}]
  ELSE [k |-> "union", name |-> <<>>, of |-> {ty.name : ty \in t.subtypes}]

----------------------------------------------------------------------------
(* SATEncoder: the construction of the formulas                            *)
(*                                                                         *)
(* A formula that _SignaturesEqual returns is [ok, eqs]: the constant      *)
(* False when ok is FALSE, else the conjunction of the Equalities eqs.     *)
(* A Disjunction is the set of its formulas, a Conjunction of Disjunctions *)
(* the set of its Disjunctions.  An element of the set conj of             *)
(* _GenerateConstraints is [isFalse, fow]: the value False, or what        *)
(* _FunctionsEqualOneWay returned.                                         *)

\* _NewEquality
NewEquality(ts, a, b) == [types |-> ts \cup {a, b}, eq |-> Equality(a, b)]

\* _TypeFromPyTD: a class of that name in self.types, else Type.FromPyTD.
\* (`ty, = matches` raises ValueError on two matches; the classes of the
\* model never give two ClassTypes of a name that a signature refers to.)
TypeFromPyTD(ts, td, path) ==
  IF td.k = "class" /\ \E ty \in ts : ty.kind = "class" /\ td.name = ty.name
  THEN CHOOSE ty \in ts : ty.kind = "class" /\ td.name = ty.name
  ELSE FromPyTD(td, TRUE, path)

\* list.append of a new Equality; acc is [types, eqs].
AppendEquality(acc, ne) == [types |-> ne.types, eqs |-> acc.eqs \cup {ne.eq}]

\* self._NewEquality(self._TypeFromPyTD(x, a_path), self._TypeFromPyTD(y, b_path))
\* appended to acc.
CompareTypes(acc, x, y, a_path, b_path) ==
  AppendEquality(acc, NewEquality(acc.types, TypeFromPyTD(acc.types, x, a_path),
                                  TypeFromPyTD(acc.types, y, b_path)))

\* A loop that compares no parameter types.
ParamEqualitiesSkipped(acc, a, b, a_path, b_path, i) == acc

\* The loop of _SignaturesEqual over zip(a.params, b.params), from i on.
RECURSIVE ParamEqualities(_, _, _, _, _, _)
ParamEqualities(acc, a, b, a_path, b_path, i) ==
  IF i > Len(a.params) THEN acc
  ELSE IF a.params[i] # b.params[i]
       THEN ParamEqualities(CompareTypes(acc, a.params[i], b.params[i],
                                         a_path, b_path),
                            a, b, a_path, b_path, i + 1)
       ELSE ParamEqualities(acc, a, b, a_path, b_path, i + 1)

\* The end of _SignaturesEqual: the return types, and the Conjunction.
ReturnEqualities(pe, a, b, a_path, b_path) ==
  IF a.ret # b.ret THEN CompareTypes(pe, a.ret, b.ret, a_path, b_path) ELSE pe

ConjunctionOfEqualities(acc) ==
  [types |-> acc.types, formula |-> [ok |-> TRUE, eqs |-> acc.eqs]]

\* _SignaturesEqual
SignaturesEqual(ts, a, b, a_path, b_path) ==
  IF Len(a.params) = Len(b.params)
  THEN ConjunctionOfEqualities(
         ReturnEqualities(ParamEqualities([types |-> ts, eqs |-> {}], a, b,
                                          a_path, b_path, 1),
                          a, b, a_path, b_path))
  ELSE [types |-> ts, formula |-> [ok |-> FALSE, eqs |-> {}]]

\* acc is [types, disj]; se is what _SignaturesEqual did.
AddFormula(acc, se) == [types |-> se.types, disj |-> acc.disj \cup {se.formula}]

\* The inner generator of _FunctionsEqualOneWay: the Disjunction, over the
\* signatures of right_func from j on, of the equality with left_sig.
RECURSIVE DisjunctionFrom(_, _, _, _, _, _)
DisjunctionFrom(acc, left_sig, right_sigs, a_path, b_path, j) ==
  IF j > Len(right_sigs) THEN acc
  ELSE DisjunctionFrom(AddFormula(acc, SignaturesEqual(acc.types, left_sig,
                                                       right_sigs[j], a_path,
                                                       b_path)),
                       left_sig, right_sigs, a_path, b_path, j + 1)

\* acc is [types, fow]; d is a finished Disjunction.
AddDisjunction(acc, d) == [types |-> d.types, fow |-> acc.fow \cup {d.disj}]

\* The outer generator of _FunctionsEqualOneWay, from signature i of
\* left_func on.
RECURSIVE ConjunctionFrom(_, _, _, _, _, _)
ConjunctionFrom(acc, left_sigs, right_sigs, a_path, b_path, i) ==
  IF i > Len(left_sigs) THEN acc
  ELSE ConjunctionFrom(
         AddDisjunction(acc, DisjunctionFrom([types |-> acc.types, disj |-> {}],
                                             left_sigs[i], right_sigs, a_path,
                                             b_path, 1)),
         left_sigs, right_sigs, a_path, b_path, i + 1)

\* _FunctionsEqualOneWay
FunctionsEqualOneWay(ts, left_func, right_func, a_path, b_path) ==
  ConjunctionFrom([types |-> ts, fow |-> {}], left_func, right_func, a_path,
                  b_path, 1)

\* sorted() of a set of method names.
RECURSIVE SortedNames(_)
SortedNames(S) ==
  IF S = {} THEN <<>>
  ELSE <<CHOOSE x \in S : \A y \in S \ {x} : Ord(x) < Ord(y)>>
       \o SortedNames(S \ {CHOOSE x \in S : \A y \in S \ {x} : Ord(x) < Ord(y)})

\* The first of a set of Equalities in sorted() order.
FirstVar(S) == CHOOSE x \in S : \A y \in S \ {x} : VarLt(x, y)

\* sorted() of a set of Equalities.
RECURSIVE SortedVars(_)
SortedVars(S) ==
  IF S = {} THEN <<>> ELSE <<FirstVar(S)>> \o SortedVars(S \ {FirstVar(S)})

FalseElement == [isFalse |-> TRUE, fow |-> {}]

\* A test that forgets that only a complete side knows all its methods.
MissingFromEither(name, left, right) ==
  name \notin DOMAIN Structure(left) \/ name \notin DOMAIN Structure(right)

\* The test of the elif of _GenerateConstraints: the name is missing from a
\* complete side.
MissingFromComplete(name, left, right) ==
  \/ name \notin DOMAIN Structure(left) /\ left.complete
  \/ name \notin DOMAIN Structure(right) /\ right.complete

\* conj.add of what _FunctionsEqualOneWay returned; acc is [types, conj].
AddOneWay(acc, f) ==
  [types |-> f.types, conj |-> acc.conj \cup {[isFalse |-> FALSE, fow |-> f.fow]}]

\* if complete: conj.add(self._FunctionsEqualOneWay(...))
AddOneWayIf(complete, acc, left_func, right_func, a_path, b_path) ==
  IF complete
  THEN AddOneWay(acc, FunctionsEqualOneWay(acc.types, left_func, right_func,
                                           a_path, b_path))
  ELSE acc

\* A method name of both structures: the two ifs of _GenerateConstraints.
BothWays(acc, left, right, name) ==
  AddOneWayIf(left.complete,
              AddOneWayIf(right.complete, acc, Structure(left)[name],
                          Structure(right)[name], right, left),
              Structure(right)[name], Structure(left)[name], left, right)

\* The loop of _GenerateConstraints over the sorted method names, from
\* names[i] on, with its break.
RECURSIVE RequirementFrom(_, _, _, _, _)
RequirementFrom(acc, left, right, names, i) ==
  IF i > Len(names) THEN acc
  ELSE IF names[i] \in DOMAIN Structure(left)
          /\ names[i] \in DOMAIN Structure(right)
       THEN RequirementFrom(BothWays(acc, left, right, names[i]), left, right,
                            names, i + 1)
       ELSE IF MissingFromComplete(names[i], left, right)
            THEN [types |-> acc.types, conj |-> acc.conj \cup {FalseElement}]
            ELSE RequirementFrom(acc, left, right, names, i + 1)

\* self._SATEquals(var, False)
EqualsFalse(ts, var) ==
  [types |-> ts,
   constraints |-> <<[op |-> "Equals", var |-> var, lit |-> TRUE, conj |-> {}]>>,
   hints |-> <<>>]

\* An end of the loop body that never asks for more than an implication.
EmitImplication(var, req) ==
  [types |-> req.types,
   constraints |-> <<[op |-> "Implies", var |-> var, lit |-> FALSE,
                      conj |-> req.conj]>>,
   hints |-> <<[var |-> var, value |-> TRUE]>>]

\* The end of the loop body of _GenerateConstraints: requirement is
\* Conjunction(req.conj).
Emit(var, req) ==
  IF var.left.complete /\ var.right.complete
  THEN [types |-> req.types,
        constraints |-> <<[op |-> "Equals", var |-> var, lit |-> FALSE,
                           conj |-> req.conj]>>,
        hints |-> <<>>]
  ELSE [types |-> req.types,
        constraints |-> <<[op |-> "Implies", var |-> var, lit |-> FALSE,
                           conj |-> req.conj]>>,
        hints |-> <<[var |-> var, value |-> TRUE]>>]

\* The body of the for loop of _GenerateConstraints for one variable: what
\* it adds to self.types and what it tells self.sat.
ConstraintsOf(ts, var) ==
  IF ~IsNominallyCompatibleWith(var.left, var.right)
  THEN EqualsFalse(ts, var)
  ELSE Emit(var,
            RequirementFrom([types |-> ts, conj |-> {}], var.left, var.right,
                            SortedNames(DOMAIN Structure(var.left)
                                        \cup DOMAIN Structure(var.right)),
                            1))

\* acc is what _GenerateConstraints did so far, c what one loop body did.
Told(acc, c) ==
  [types |-> c.types, constraints |-> acc.constraints \o c.constraints,
   hints |-> acc.hints \o c.hints]

\* _GenerateConstraints on the sorted variables vs, from vs[i] on.
RECURSIVE GenerateConstraintsFrom(_, _, _)
GenerateConstraintsFrom(acc, vs, i) ==
  IF i > Len(vs) THEN acc
  ELSE GenerateConstraintsFrom(
         Strict(acc, Told(acc, ConstraintsOf(acc.types, vs[i]))), vs, i + 1)

\* _GenerateConstraints
GenerateConstraints(ts, class_variables) ==
  GenerateConstraintsFrom([types |-> ts, constraints |-> <<>>, hints |-> <<>>],
                          SortedVars(class_variables), 1)

\* set(Equality(*p) for p in itertools.combinations(self.types, 2))
AllEqualities(ts) ==
  {Equality(p[1], p[2]) : p \in {q \in ts \X ts : q[1] # q[2]}}

\* A difference that forgets to take away the variables seen before.
AddedVariablesKeepsSeen(new_variables, old_variables) == new_variables

\* added_variables = new_variables - variables
AddedVariables(new_variables, old_variables) == new_variables \ old_variables

----------------------------------------------------------------------------
(* The SAT backend (sat_problem.SATProblem)                                *)
(*                                                                         *)
(* An assignment is the set T of the variables that are true.              *)

EvalFormula(f, T) == f.ok /\ f.eqs \subseteq T

\* Disjunction: empty is false.
EvalDisjunction(d, T) == \E f \in d : EvalFormula(f, T)

\* Conjunction: empty is true.
EvalOneWay(fow, T) == \A d \in fow : EvalDisjunction(d, T)

EvalRequirement(conj, T) ==
  \A e \in conj : ~e.isFalse /\ EvalOneWay(e.fow, T)

EvalRhs(c, T) == IF c.lit THEN FALSE ELSE EvalRequirement(c.conj, T)

\* T satisfies everything Equals, Implies and BetweenNM have been told.
Holds(problem, T) ==
  /\ \A b \in problem.between : Cardinality(b.vs \cap T) >= b.min
  /\ \A i \in DOMAIN problem.constraints :
        LET c == problem.constraints[i]
        IN  IF c.op = "Equals" THEN (c.var \in T) = EvalRhs(c, T)
            ELSE (c.var \in T) => EvalRhs(c, T)
  /\ \A t \in problem.transitive :
        (t.eq1 \in T /\ t.eq2 \in T) => t.eq3 \in T

\* The Equalities of a requirement.
EqualitiesOf(conj) ==
  UNION {UNION {UNION {f.eqs : f \in d} : d \in e.fow} : e \in conj}

\* The variables the backend knows: every Equality it has been handed.
SatVars(problem) ==
  UNION {{problem.constraints[i].var}
           \cup EqualitiesOf(problem.constraints[i].conj) :
         i \in DOMAIN problem.constraints}
  \cup {problem.hints[i].var : i \in DOMAIN problem.hints}
  \cup UNION {{t.eq1, t.eq2, t.eq3} : t \in problem.transitive}
  \cup UNION {b.vs : b \in problem.between}

\* Variables whose right-hand side is false even when every variable is
\* true: the formulas are monotone, so these are false in every solution.
MustBeFalse(problem) ==
  {problem.constraints[i].var :
     i \in {j \in DOMAIN problem.constraints :
              ~EvalRhs(problem.constraints[j], SatVars(problem))}}

\* The satisfying assignments.
Solutions(problem) ==
  {T \in SUBSET (SatVars(problem) \ MustBeFalse(problem)) : Holds(problem, T)}

----------------------------------------------------------------------------
(* Bounds of the model and the inputs of Generate                          *)

\* Classes handed to one call of Generate, complete and incomplete.
MaxClasses == 3
\* Types in self.types when Generate's loop ends.
MaxTypes == 5
\* Iterations of Generate's while loop that the model follows.
MaxRounds == 4

\* Calls of Generate and Solve that a caller makes on one SATEncoder.
MaxCalls == 3

\* Generate's while loop as a function: self.types when it ends (or after
\* fuel iterations), from self.types = ts, variables = vs and
\* added_variables = added.
RECURSIVE Fixpoint(_, _, _, _)
FixpointNext(new_types, vs, fuel) ==
  Fixpoint(new_types, AllEqualities(new_types),
           AddedVariables(AllEqualities(new_types), vs), fuel - 1)

Fixpoint(ts, vs, added, fuel) ==
  IF added = {} \/ fuel = 0 THEN ts
  ELSE Strict(ts, FixpointNext(GenerateConstraints(ts, added).types, vs, fuel))

\* class_types of Generate
ClassTypes(inp) ==
  {ClassType(cls, TRUE) : cls \in inp.complete}
  \cup {ClassType(cls, FALSE) : cls \in inp.incomplete}

\* The type references in the signatures of a class.
RefsOf(n) ==
  UNION {UNION {Range(sg.params) \cup {sg.ret} :
                sg \in Range(ClassMethods[n][m])} :
         m \in DOMAIN ClassMethods[n]}

\* The union types that the signatures of a set of classes mention.
UnionsOf(names) == {td \in UNION {RefsOf(n) : n \in names} : td.k = "union"}

\* Disjoint sets of classes, at most MaxClasses in all.
Splits ==
  UNION {{[complete |-> c, incomplete |-> s \ c] : c \in SUBSET s} :
         s \in {x \in SUBSET InputNames : Cardinality(x) <= MaxClasses}}

\* The arguments of Generate that the model draws: at most one union type
\* among the signatures, and at most MaxTypes types when the call ends.
InBounds(ts, inp) ==
  /\ Cardinality(UnionsOf(inp.complete \cup inp.incomplete)) <= 1
  /\ Cardinality(Fixpoint(ts \cup ClassTypes(inp), AllEqualities(ClassTypes(inp)),
                          AllEqualities(ClassTypes(inp)), MaxRounds))
       <= MaxTypes

\* The classes of the caller that does not follow the lifecycle.
ApiNames == {<<"A">>, <<"C">>}

----------------------------------------------------------------------------
(* The state machine: one SATEncoder, its caller, Generate step by step    *)

NoSat == [constraints |-> <<>>, hints |-> <<>>, transitive |-> {},
          between |-> {}]

\* SATEncoder.__init__
Init ==
  /\ pc = "created"
  /\ types = {}
  /\ variables = {}
  /\ added_variables = {}
  /\ sat = NoSat
  /\ solution = [found |-> FALSE, value |-> <<>>]
  /\ results = <<>>
  /\ warned = FALSE
  /\ rounds = 0
  /\ calls = <<>>
  /\ given = [complete |-> {}, incomplete |-> {}]

\* Generate, up to its while loop.
Begin(inp) ==
  /\ types' = types \cup ClassTypes(inp)
  /\ variables' = AllEqualities(ClassTypes(inp))
  /\ added_variables' = variables'
  /\ rounds' = 0
  /\ calls' = Append(calls, "Generate")
  /\ given' = inp
  /\ pc' = "loop"
  /\ UNCHANGED <<sat, solution, results, warned>>

\* The caller that follows the lifecycle calls Generate on a new encoder.
GenerateBegin(inp) ==
  /\ pc = "created"
  /\ InBounds(types, inp)
  /\ Begin(inp)

\* One iteration of Generate's while loop.
LoopRound ==
  /\ pc = "loop"
  /\ added_variables # {}
  /\ rounds < MaxRounds
  /\ LET g == GenerateConstraints(types, added_variables)
     IN  /\ types' = g.types
         /\ sat' = [sat EXCEPT !.constraints = @ \o g.constraints,
                               !.hints = @ \o g.hints]
  /\ variables' = AllEqualities(types')
  /\ added_variables' = AddedVariables(variables', variables)
  /\ rounds' = rounds + 1
  /\ UNCHANGED <<pc, solution, results, warned, calls, given>>

\* use_transitivity_constraints
UseTransitivityConstraints == TRUE

\* Triples with the test of b the wrong way round.
TransitivityTriplesThroughComplete(ts) ==
  {t \in ts \X {b \in ts : b.complete} \X ts :
     t[1] # t[2] /\ t[1] # t[3] /\ t[2] # t[3]}

\* The triples (a, b, c) of the transitivity loops: b incomplete, all
\* three different.
TransitivityTriples(ts) ==
  {t \in ts \X {b \in ts : ~b.complete} \X ts :
     t[1] # t[2] /\ t[1] # t[3] /\ t[2] # t[3]}

\* The while loop has ended; the transitivity constraints.  An assert that
\* fails ends Generate with an AssertionError.
Transitivity ==
  /\ pc = "loop"
  /\ added_variables = {}
  /\ LET triples == IF UseTransitivityConstraints
                    THEN TransitivityTriples(types) ELSE {}
         implied(t) == [eq1 |-> Equality(t[1], t[2]),
                        eq2 |-> Equality(t[2], t[3]),
                        eq3 |-> Equality(t[1], t[3])]
     IN  IF \A t \in triples :
               {implied(t).eq1, implied(t).eq2, implied(t).eq3}
                 \subseteq variables
         THEN /\ sat' = [sat EXCEPT !.transitive =
                                      @ \cup {implied(t) : t \in triples}]
              /\ pc' = "cardinality"
         ELSE /\ sat' = sat
              /\ pc' = "assert_failed"
  /\ UNCHANGED <<types, variables, added_variables, solution, results, warned,
                 rounds, calls, given>>

\* The BetweenNM constraint of an incomplete ClassType.
AtLeastOne(ty, vs) ==
  [vs  |-> {v \in vs : (ty = v.left \/ ty = v.right) /\ Other(v, ty).complete},
   min |-> 1, ty |-> ty]

\* A test of completeness the wrong way round.
NeedsCandidateIfComplete(ty) == ty.kind = "class" /\ ty.complete

\* The types that get a BetweenNM constraint.
NeedsCandidate(ty) == ty.kind = "class" /\ ~ty.complete

\* The last loop of Generate: one BetweenNM per incomplete ClassType.
AtLeastOneCandidate ==
  /\ pc = "cardinality"
  /\ sat' = [sat EXCEPT !.between =
                @ \cup {AtLeastOne(ty, variables) :
                         ty \in {t \in types : NeedsCandidate(t)}}]
  /\ pc' = "generated"
  /\ UNCHANGED <<types, variables, added_variables, solution, results, warned,
                 rounds, calls, given>>

\* sat.Solve() and the iteration over self.sat: a satisfying assignment when
\* there is one, else every variable undetermined (None).
Solved(problem) ==
  IF Solutions(problem) = {}
  THEN {[found |-> FALSE, value |-> [v \in SatVars(problem) |-> "None"]]}
  ELSE {[found |-> TRUE,
         value |-> [v \in SatVars(problem) |->
                      IF v \in T THEN "True" ELSE "False"]] :
          T \in Solutions(problem)}

\* The side of a true Equality that Solve takes for the incomplete one.
Incomp(var) == IF ~var.left.complete THEN var.left ELSE var.right

\* Whether Solve records something for var (its inner if).
Records(var) == Other(var, Incomp(var)).complete

\* The for loop of Solve over the sorted variables vs, from vs[i] on.
\* incomp.cls of a UnionType raises AttributeError.
RECURSIVE ReadSolution(_, _, _, _, _)
ReadSolution(vs, i, sol, res, warn) ==
  IF i > Len(vs) THEN [results |-> res, warned |-> warn, failed |-> FALSE]
  ELSE LET var    == vs[i]
           incomp == Incomp(var)
       IN  IF sol[var] = "True" /\ Records(var)
           THEN IF incomp.kind # "class"
                THEN [results |-> res, warned |-> warn, failed |-> TRUE]
                ELSE ReadSolution(vs, i + 1, sol,
                                  (incomp.name :> ToPyTD(Other(var, incomp)))
                                    @@ res,
                                  warn \/ incomp.name \in DOMAIN res)
           ELSE ReadSolution(vs, i + 1, sol, res, warn)

\* SATEncoder.Solve
SolveBody ==
  /\ \E sol \in Solved(sat) :
       LET r == ReadSolution(SortedVars(DOMAIN sol.value), 1, sol.value, <<>>,
                             FALSE)
       IN  /\ solution' = sol
           /\ results' = r.results
           /\ warned' = r.warned
           /\ pc' = IF r.failed THEN "solve_failed" ELSE "solved"
  /\ calls' = Append(calls, "Solve")
  /\ UNCHANGED <<types, variables, added_variables, sat, rounds, given>>

\* The caller that follows the lifecycle calls Solve after Generate.
Solve ==
  /\ pc = "generated"
  /\ SolveBody

Next ==
  \/ \E inp \in Splits : GenerateBegin(inp)
  \/ LoopRound
  \/ Transitivity
  \/ AtLeastOneCandidate
  \/ Solve

Spec == Init /\ [][Next]_vars

\* No method of SATEncoder looks at what has been called before: a caller
\* may call Generate and Solve whenever no call is running.
Idle == pc \in {"created", "generated", "solved"}

GenerateCall(inp) ==
  /\ Idle
  /\ Len(calls) < MaxCalls
  /\ inp.complete \cup inp.incomplete \subseteq ApiNames
  /\ InBounds(types, inp)
  /\ Begin(inp)

SolveCall ==
  /\ Idle
  /\ Len(calls) < MaxCalls
  /\ SolveBody

ApiNext ==
  \/ \E inp \in Splits : GenerateCall(inp)
  \/ LoopRound
  \/ Transitivity
  \/ AtLeastOneCandidate
  \/ SolveCall

ApiSpec == Init /\ [][ApiNext]_vars

----------------------------------------------------------------------------
(* Properties                                                              *)

\* Solve has run.
AfterSolve == pc \in {"solved", "solve_failed"}

\* Solve has run and the backend found a satisfying assignment.
Satisfying == AfterSolve /\ solution.found

IsTrue(v) == v \in DOMAIN solution.value /\ solution.value[v] = "True"

IsIncompleteClass(t) == t.kind = "class" /\ ~t.complete

IsCompleteClass(t) == t.kind = "class" /\ t.complete

\* t has a true Equality with a complete Type.
HasCandidate(t) ==
  \E v \in variables :
     (t = v.left \/ t = v.right) /\ Other(v, t).complete /\ IsTrue(v)

\* C1: Generate terminates: its while loop reaches a round after which no
\* variable is new (within the MaxRounds rounds that the model follows),
\* each round before that one strictly grows self.types, and once no
\* variable is new self.types and the variables stay as they are.
C1_GenerateTerminates ==
  /\ [](pc = "loop" => (added_variables = {} \/ rounds < MaxRounds))
  /\ [][(pc = "loop" /\ rounds' = rounds + 1)
          => /\ types \subseteq types'
             /\ (added_variables' = {}) = (types' = types)]_vars
  /\ [][(pc # "created" /\ added_variables = {})
          => (types' = types /\ variables' = variables
              /\ added_variables' = {})]_vars

\* The loop has run three rounds, two of which found new Types, and ended.
C1_Witness ==
  pc = "cardinality" /\ rounds = 3 /\ added_variables = {}

\* C2, amended: in a satisfying assignment the true Equalities are
\* transitive through every incomplete Type: for different Types a, b, c of
\* self.types with b incomplete, Equality(a, b) and Equality(b, c) true
\* make Equality(a, c) true.
C2_TransitiveThroughIncomplete ==
  Satisfying =>
    \A a \in types, b \in types, c \in types :
       (a # b /\ b # c /\ a # c /\ ~b.complete)
         => ~(IsTrue(Equality(a, b)) /\ IsTrue(Equality(b, c))
              /\ ~IsTrue(Equality(a, c)))

\* A satisfying assignment in which two Types are equal through an
\* incomplete one.
C2_Witness ==
  /\ Satisfying
  /\ \E a \in types, b \in types, c \in types :
        /\ a # b /\ b # c /\ a # c /\ ~b.complete
        /\ IsTrue(Equality(a, b)) /\ IsTrue(Equality(b, c))
        /\ IsTrue(Equality(a, c))

\* C2 as the spec states it: in a satisfying assignment the true Equalities
\* are transitive over any three Types of self.types, whatever their
\* completeness.
C2_TransitiveOverAllTypes ==
  Satisfying =>
    \A a \in types, b \in types, c \in types :
       (a # b /\ b # c /\ a # c)
         => ~(IsTrue(Equality(a, b)) /\ IsTrue(Equality(b, c))
              /\ ~IsTrue(Equality(a, c)))

\* C3, amended: in a satisfying assignment every incomplete ClassType, given
\* to Generate or made up for an unresolved name, has a true Equality with
\* a complete Type.
C3_IncompleteClassHasCandidate ==
  Satisfying => \A t \in types : IsIncompleteClass(t) => HasCandidate(t)

\* A satisfying assignment for an incomplete class of the caller and a
\* placeholder class that Generate made up.
C3_Witness ==
  /\ Satisfying
  /\ \E t \in types : IsIncompleteClass(t) /\ t.name \in given.incomplete
  /\ \E t \in types : IsIncompleteClass(t) /\ ~Resolved(t.name)

\* C3 as the spec states it: every incomplete Type, unions too, has a true
\* Equality with a complete Type.
C3_IncompleteTypeHasCandidate ==
  Satisfying => \A t \in types : ~t.complete => HasCandidate(t)

\* The only signature of the only method f of a class.
OneSignature(n) ==
  DOMAIN ClassMethods[n] = {"f"} /\ Len(ClassMethods[n]["f"]) = 1

SigOf(n) == ClassMethods[n]["f"][1]

DifferingParams(a, b) == {k \in DOMAIN a.params : a.params[k] # b.params[k]}

\* Scenario 2: the signature of i is that of a and differs from that of c
\* in one parameter type.
Scenario2(i, a, c) ==
  /\ i # a /\ i # c /\ a # c
  /\ OneSignature(i) /\ OneSignature(a) /\ OneSignature(c)
  /\ SigOf(i) = SigOf(a)
  /\ Len(SigOf(i).params) = Len(SigOf(c).params)
  /\ SigOf(i).ret = SigOf(c).ret
  /\ Cardinality(DifferingParams(SigOf(i), SigOf(c))) = 1

\* Generate was called with complete a and c and incomplete i.
CalledWith(i, a, c) == given = [complete |-> {a, c}, incomplete |-> {i}]

\* What scenario 2 promises: satisfiable, i is a and not c, Solve says so.
MapsToFirst(i, a, c) ==
  /\ Satisfying
  /\ IsTrue(Equality(ClassType(i, FALSE), ClassType(a, TRUE)))
  /\ ~IsTrue(Equality(ClassType(i, FALSE), ClassType(c, TRUE)))
  /\ pc = "solved"
  /\ i \in DOMAIN results
  /\ results[i] = ToPyTD(ClassType(a, TRUE))

\* The parameter types in which i and c differ are names of two different
\* known classes.
DifferInKnownClasses(i, c) ==
  \A k \in DifferingParams(SigOf(i), SigOf(c)) :
     /\ Resolved(SigOf(i).params[k].name)
     /\ Resolved(SigOf(c).params[k].name)
     /\ SigOf(i).params[k].name # SigOf(c).params[k].name

OneSided ==
  {v \in DOMAIN solution.value : solution.value[v] = "True"
                                  /\ v.left.complete # v.right.complete}

IncompleteSide(v) == IF v.left.complete THEN v.right ELSE v.left

CompleteSide(v) == IF v.left.complete THEN v.left ELSE v.right

\* C5 as the spec states it: the result of Solve has an entry exactly for
\* the true Equalities with one complete side, from the class of the
\* incomplete side to the complete side; no other variable adds an entry
\* or makes Solve fail.
C5_EntriesOfOneSidedEqualities ==
  /\ pc = "solved" =>
       /\ DOMAIN results = {IncompleteSide(v).name : v \in OneSided}
       /\ \A k \in DOMAIN results :
             \E v \in OneSided : /\ IncompleteSide(v).name = k
                                 /\ results[k] = ToPyTD(CompleteSide(v))
  /\ pc = "solve_failed" => \E v \in OneSided : IncompleteSide(v).kind # "class"

\* C6 as the spec states it: the calls on a SATEncoder are Generate, then
\* Solve, then nothing.
C6_Lifecycle ==
  calls \in {<<>>, <<"Generate">>, <<"Generate", "Solve">>}

\* The reference of C7, from the structures alone.
RefNames(left, right) == DOMAIN Structure(left) \cup DOMAIN Structure(right)

RefMissing(left, right) ==
  \E name \in RefNames(left, right) :
     \/ name \notin DOMAIN Structure(left) /\ left.complete
     \/ name \notin DOMAIN Structure(right) /\ right.complete

RefEqualities(a, b, a_path, b_path) ==
  {Equality(TypeFromPyTD(types, a.params[k], a_path),
            TypeFromPyTD(types, b.params[k], b_path)) :
     k \in DifferingParams(a, b)}
  \cup (IF a.ret # b.ret
        THEN {Equality(TypeFromPyTD(types, a.ret, a_path),
                       TypeFromPyTD(types, b.ret, b_path))}
        ELSE {})

RefSignaturesEqual(a, b, a_path, b_path) ==
  IF Len(a.params) = Len(b.params)
  THEN [ok |-> TRUE, eqs |-> RefEqualities(a, b, a_path, b_path)]
  ELSE [ok |-> FALSE, eqs |-> {}]

RefOneWay(L, R, a_path, b_path) ==
  [isFalse |-> FALSE,
   fow |-> {{RefSignaturesEqual(L[i], R[j], a_path, b_path) : j \in DOMAIN R} :
              i \in DOMAIN L}]

RefRequirement(left, right) ==
  LET both == DOMAIN Structure(left) \cap DOMAIN Structure(right)
  IN  (IF right.complete
       THEN {RefOneWay(Structure(left)[n], Structure(right)[n], right, left) :
               n \in both}
       ELSE {})
      \cup
      (IF left.complete
       THEN {RefOneWay(Structure(right)[n], Structure(left)[n], left, right) :
               n \in both}
       ELSE {})

\* C7: the requirement that _GenerateConstraints hands to the backend for a
\* nominally compatible pair is false when a method name is missing from a
\* complete side, and else the conjunction, over the names of both
\* structures, of the one-way function equalities of the complete sides.
C7_RequirementIsReference ==
  pc = "loop" =>
    \A i \in DOMAIN sat.constraints :
       ~sat.constraints[i].lit =>
          IF RefMissing(sat.constraints[i].var.left, sat.constraints[i].var.right)
          THEN FalseElement \in sat.constraints[i].conj
          ELSE sat.constraints[i].conj
                 = RefRequirement(sat.constraints[i].var.left,
                                  sat.constraints[i].var.right)

\* The loop has ended; requirements with both directions, with one, with
\* none, and a false one have been built.
C7_Witness ==
  /\ pc = "loop" /\ added_variables = {}
  /\ \E i \in DOMAIN sat.constraints :
        /\ ~sat.constraints[i].lit
        /\ Cardinality(sat.constraints[i].conj) = 2
        /\ FalseElement \notin sat.constraints[i].conj
  /\ \E i \in DOMAIN sat.constraints :
        /\ ~sat.constraints[i].lit
        /\ FalseElement \in sat.constraints[i].conj
  /\ \E i \in DOMAIN sat.constraints :
        /\ ~sat.constraints[i].lit
        /\ sat.constraints[i].var.left.complete
             # sat.constraints[i].var.right.complete
        /\ Cardinality(sat.constraints[i].conj) = 1
        /\ FalseElement \notin sat.constraints[i].conj

\* Two complete ClassTypes of different classes.
Incompatible(v) ==
  /\ IsCompleteClass(v.left) /\ IsCompleteClass(v.right)
  /\ v.left.name # v.right.name

ConstraintsOn(v) == {i \in DOMAIN sat.constraints : sat.constraints[i].var = v}

HintsOn(v) == {i \in DOMAIN sat.hints : sat.hints[i].var = v}

\* The one hard constraint on v is the one of its category.
OfItsCategory(v, c) ==
  IF Incompatible(v)
  THEN c.op = "Equals" /\ c.lit /\ HintsOn(v) = {}
  ELSE IF v.left.complete /\ v.right.complete
       THEN c.op = "Equals" /\ ~c.lit /\ HintsOn(v) = {}
       ELSE /\ c.op = "Implies" /\ ~c.lit
            /\ Cardinality(HintsOn(v)) = 1
            /\ \A i \in HintsOn(v) : sat.hints[i].value

\* C8: every variable that _GenerateConstraints has processed has exactly
\* one hard constraint: variable == false for two complete ClassTypes of
\* different classes, variable == requirement for two other complete
\* Types, variable => requirement and a hint of true otherwise; and the
\* Equality of two different complete classes is false in every
\* satisfying assignment.
C8_OneConstraintByCategory ==
  /\ pc # "created" =>
       \A v \in variables :
          IF v \in added_variables
          THEN ConstraintsOn(v) = {} /\ HintsOn(v) = {}
          ELSE /\ Cardinality(ConstraintsOn(v)) = 1
               /\ \A i \in ConstraintsOn(v) : OfItsCategory(v, sat.constraints[i])
  /\ Satisfying => \A v \in variables : Incompatible(v) => ~IsTrue(v)

\* Solve has run on a satisfiable model with a variable of each category.
C8_Witness ==
  /\ Satisfying
  /\ \E v \in variables : Incompatible(v)
  /\ \E v \in variables :
        ~Incompatible(v) /\ v.left.complete /\ v.right.complete
  /\ \E v \in variables : ~v.left.complete \/ ~v.right.complete

\* The Equalities in the formulas that have been handed to the backend.
EmittedEqualities ==
  UNION {EqualitiesOf(sat.constraints[i].conj) : i \in DOMAIN sat.constraints}

\* C9 as the spec states it: when the loop has ended the variables are the
\* Equalities of all pairs of different Types of self.types, each has been
\* processed exactly once, every Equality in an emitted formula pairs two
\* different Types and is one of the variables, and no assert of the
\* transitivity pass fails.
C9_VariablesAreAllPairs ==
  /\ pc # "assert_failed"
  /\ (pc \in {"cardinality", "generated"}) =>
       /\ variables = AllEqualities(types)
       /\ \A v \in variables : Cardinality(ConstraintsOn(v)) = 1
       /\ \A i \in DOMAIN sat.constraints : sat.constraints[i].var \in variables
       /\ \A e \in EmittedEqualities : e.left # e.right /\ e \in variables

\* C10 as the spec states it: in a satisfying assignment no incomplete Type
\* has true Equalities with two different complete ClassTypes; and when
\* every complete Type is a ClassType, Solve does not reach its "assigned
\* more than once" branch.
C10_AtMostOneCompleteClass ==
  /\ Satisfying =>
       \A t \in types, a \in types, c \in types :
          (~t.complete /\ IsCompleteClass(a) /\ IsCompleteClass(c) /\ a # c)
            => ~(IsTrue(Equality(t, a)) /\ IsTrue(Equality(t, c)))
  /\ (AfterSolve /\ \A t \in types : t.complete => t.kind = "class")
       => ~warned

====
